---- MODULE Spec2Model ----
(***************************************************************************)
(* Resume relevance service (src/backend.py): the job-description and      *)
(* results tables, the request handlers that read and write them, the      *)
(* keyword scorer and the score blend.                                     *)
(*                                                                         *)
(* Requests run concurrently (one thread and one storage connection per    *)
(* request).  A handler is cut into steps only where it leaves the storage *)
(* engine between two statements: upload_resume between its job lookup and *)
(* its insert (text extraction and the external model call lie between),   *)
(* delete_job between its existence check and its deletes.  A write        *)
(* transaction (first write up to commit or rollback) is one step, because *)
(* the engine's write lock serialises it.  Reads are taken to succeed; the *)
(* commit of a write transaction may raise a storage error                 *)
(* (sqlite3.Error), upon which the handler rolls back.                     *)
(***************************************************************************)
EXTENDS Integers, Sequences, FiniteSets, TLC

(***************************************************************************)
(* Binary floating point.  The scorer and the blend compute in Python      *)
(* floats (IEEE-754 double, round to nearest, ties to even).  A            *)
(* non-negative value below 256 is held as a fixed-point number with 60    *)
(* fractional bits in four limbs <<ip, f1, f2, f3>>, each fractional limb  *)
(* 20 bits wide: value = ip + f1/2^20 + f2/2^40 + f3/2^60.  Every double   *)
(* the program forms is 0 or at least 1/20, so its unit in the last place  *)
(* is at least 2^-57 and lies on this grid.                                *)
(***************************************************************************)
LimbBits == 20

Limb == 2 ^ LimbBits

MantissaBits == 53

RECURSIVE BitLen(_)
BitLen(n) == IF n = 0 THEN 0 ELSE 1 + BitLen(n \div 2)

\* Carry propagation, lowest limb first.
Norm(x) ==
    LET t3 == x[4]
        t2 == x[3] + (t3 \div Limb)
        t1 == x[2] + (t2 \div Limb)
        t0 == x[1] + (t1 \div Limb)
    IN  <<t0, t1 % Limb, t2 % Limb, t3 % Limb>>

FxAdd(x, y) == Norm(<<x[1] + y[1], x[2] + y[2], x[3] + y[3], x[4] + y[4]>>)

FxScale(x, k) == Norm(<<x[1] * k, x[2] * k, x[3] * k, x[4] * k>>)

\* Exponent (in units of 2^-60) of the unit in the last place of x.
UlpExp(x) ==
    LET len == IF x[1] > 0 THEN 3 * LimbBits + BitLen(x[1])
               ELSE IF x[2] > 0 THEN 2 * LimbBits + BitLen(x[2])
               ELSE IF x[3] > 0 THEN LimbBits + BitLen(x[3])
               ELSE BitLen(x[4])
    IN  IF len > MantissaBits THEN len - MantissaBits ELSE 0

\* Round to a 53-bit mantissa, nearest, ties to even.  sticky: the exact
\* value has non-zero bits below the grid.
RoundDouble(x, sticky) ==
    LET n    == UlpExp(x)
        u    == 2 ^ n
        low  == x[4] % u
        half == u \div 2
        odd  == (x[4] \div u) % 2 = 1
        down == <<x[1], x[2], x[3], x[4] - low>>
        up   == \/ low > half
                \/ low = half /\ sticky
                \/ low = half /\ ~sticky /\ odd
    IN  IF n = 0 THEN x
        ELSE IF up THEN Norm(<<down[1], down[2], down[3], down[4] + u>>)
        ELSE down

\* m / r for integers 0 <= m, 1 <= r: true division, correctly rounded.
FDiv(m, r) ==
    LET ip == m \div r
        r0 == m % r
        f1 == (r0 * Limb) \div r
        r1 == (r0 * Limb) % r
        f2 == (r1 * Limb) \div r
        r2 == (r1 * Limb) % r
        f3 == (r2 * Limb) \div r
        r3 == (r2 * Limb) % r
    IN  RoundDouble(<<ip, f1, f2, f3>>, r3 # 0)

\* float * int (the int converts exactly).
FMulInt(x, k) == RoundDouble(FxScale(x, k), FALSE)

FAdd(x, y) == RoundDouble(FxAdd(x, y), FALSE)

\* int(x) for x >= 0.
FTrunc(x) == x[1]

\* The literals 0.4 and 0.6: the doubles nearest 4/10 and 6/10.
HardWeight == FDiv(4, 10)

SemanticWeight == FDiv(6, 10)

\* int((0.4 * hard_match_score) + (0.6 * semantic_score))
final_score(hard_match_score, semantic_score) ==
    FTrunc(FAdd(FMulInt(HardWeight, hard_match_score),
                FMulInt(SemanticWeight, semantic_score)))

\* Variant: rounds to the nearest integer instead of truncating.
PercentRounded(matched, relevant) == (200 * matched + relevant) \div (2 * relevant)

\* int((len(matched_keywords) / len(relevant_keywords)) * 100)
Percent(matched, relevant) == FTrunc(FMulInt(FDiv(matched, relevant), 100))

(***************************************************************************)
(* Text.  A text is a sequence of one-character strings.                   *)
(***************************************************************************)
LowerLetters ==
    <<"a", "b", "c", "d", "e", "f", "g", "h", "i", "j", "k", "l", "m",
      "n", "o", "p", "q", "r", "s", "t", "u", "v", "w", "x", "y", "z">>

UpperLetters ==
    <<"A", "B", "C", "D", "E", "F", "G", "H", "I", "J", "K", "L", "M",
      "N", "O", "P", "Q", "R", "S", "T", "U", "V", "W", "X", "Y", "Z">>

Digits ==
    <<"0", "1", "2", "3", "4", "5", "6", "7", "8", "9">>

Range(s) == {s[i] : i \in 1..Len(s)}

\* The characters the pattern \w matches.
WordChars == Range(LowerLetters) \cup Range(UpperLetters) \cup Range(Digits) \cup {"_"}

\* Uppercase letter -> lowercase letter.
LowerOf ==
    [c \in Range(UpperLetters) |->
        LowerLetters[CHOOSE i \in 1..Len(UpperLetters) : UpperLetters[i] = c]]

LowerChar(c) == IF c \in DOMAIN LowerOf THEN LowerOf[c] ELSE c

\* str.lower()
lower(text) == [i \in 1..Len(text) |-> LowerChar(text[i])]

\* Variant: str.split(), the maximal runs of characters other than a space.
split_words(text) ==
    LET n        == Len(text)
        IsWord(i) == text[i] # " "
        starts   == {i \in 1..n : IsWord(i) /\ (i = 1 \/ ~IsWord(i - 1))}
        ends     == {i \in 1..n : IsWord(i) /\ (i = n \/ ~IsWord(i + 1))}
        EndOf(i) == CHOOSE j \in ends : j >= i /\ \A e \in ends : e >= i => j <= e
    IN  {SubSeq(text, i, EndOf(i)) : i \in starts}

\* re.findall(r"\b\w+\b", text), as a set: the maximal runs of word
\* characters, each from a position where a run starts to the first position
\* at or after it where a run ends.
findall_words(text) ==
    LET n        == Len(text)
        IsWord(i) == text[i] \in WordChars
        starts   == {i \in 1..n : IsWord(i) /\ (i = 1 \/ ~IsWord(i - 1))}
        ends     == {i \in 1..n : IsWord(i) /\ (i = n \/ ~IsWord(i + 1))}
        EndOf(i) == CHOOSE j \in ends : j >= i /\ \A e \in ends : e >= i => j <= e
    IN  {SubSeq(text, i, EndOf(i)) : i \in starts}

\* The skills vocabulary, in the order of the source.
keywords == <<
    \* python
    <<"p", "y", "t", "h", "o", "n">>,
    \* java
    <<"j", "a", "v", "a">>,
    \* c++
    <<"c", "+", "+">>,
    \* sql
    <<"s", "q", "l">>,
    \* javascript
    <<"j", "a", "v", "a", "s", "c", "r", "i", "p", "t">>,
    \* react
    <<"r", "e", "a", "c", "t">>,
    \* angular
    <<"a", "n", "g", "u", "l", "a", "r">>,
    \* vue
    <<"v", "u", "e">>,
    \* machine learning
    <<"m", "a", "c", "h", "i", "n", "e", " ", "l", "e", "a", "r", "n",
      "i", "n", "g">>,
    \* data science
    <<"d", "a", "t", "a", " ", "s", "c", "i", "e", "n", "c", "e">>,
    \* artificial intelligence
    <<"a", "r", "t", "i", "f", "i", "c", "i", "a", "l", " ", "i", "n",
      "t", "e", "l", "l", "i", "g", "e", "n", "c", "e">>,
    \* aws
    <<"a", "w", "s">>,
    \* azure
    <<"a", "z", "u", "r", "e">>,
    \* gcp
    <<"g", "c", "p">>,
    \* docker
    <<"d", "o", "c", "k", "e", "r">>,
    \* kubernetes
    <<"k", "u", "b", "e", "r", "n", "e", "t", "e", "s">>,
    \* api
    <<"a", "p", "i">>,
    \* git
    <<"g", "i", "t">>,
    \* agile
    <<"a", "g", "i", "l", "e">>,
    \* scrum
    <<"s", "c", "r", "u", "m">>
    >>

calculate_hard_match_score(jd_text, resume_text) ==
    LET jd_words          == findall_words(jd_text)
        resume_words      == findall_words(resume_text)
        InJd(k)           == k \in jd_words
        InResume(k)       == k \in resume_words
        relevant_keywords == SelectSeq(keywords, InJd)
        matched_keywords  == SelectSeq(relevant_keywords, InResume)
    IN  IF relevant_keywords = <<>>
        THEN 50
        ELSE Percent(Len(matched_keywords), Len(relevant_keywords))

(***************************************************************************)
(* Input texts for the scorer: up to MaxPhrases phrases joined by spaces.  *)
(***************************************************************************)
\* looking for a python and sql developer
PhraseJob ==
    <<"l", "o", "o", "k", "i", "n", "g", " ", "f", "o", "r", " ", "a",
      " ", "p", "y", "t", "h", "o", "n", " ", "a", "n", "d", " ", "s",
      "q", "l", " ", "d", "e", "v", "e", "l", "o", "p", "e", "r">>

\* i know python and java
PhraseResume ==
    <<"i", " ", "k", "n", "o", "w", " ", "p", "y", "t", "h", "o", "n",
      " ", "a", "n", "d", " ", "j", "a", "v", "a">>

\* javascript, c++ & machine learning
PhraseCompound ==
    <<"j", "a", "v", "a", "s", "c", "r", "i", "p", "t", ",", " ", "c",
      "+", "+", " ", "&", " ", "m", "a", "c", "h", "i", "n", "e", " ",
      "l", "e", "a", "r", "n", "i", "n", "g">>

\* sql
PhraseSql ==
    <<"s", "q", "l">>

\* react angular vue aws azure gcp docker kubernetes api git agile scrum
PhraseStack ==
    <<"r", "e", "a", "c", "t", " ", "a", "n", "g", "u", "l", "a", "r",
      " ", "v", "u", "e", " ", "a", "w", "s", " ", "a", "z", "u", "r",
      "e", " ", "g", "c", "p", " ", "d", "o", "c", "k", "e", "r", " ",
      "k", "u", "b", "e", "r", "n", "e", "t", "e", "s", " ", "a", "p",
      "i", " ", "g", "i", "t", " ", "a", "g", "i", "l", "e", " ", "s",
      "c", "r", "u", "m">>

\* motivated team player
PhrasePlain ==
    <<"m", "o", "t", "i", "v", "a", "t", "e", "d", " ", "t", "e", "a",
      "m", " ", "p", "l", "a", "y", "e", "r">>

Phrases == {PhraseJob, PhraseResume, PhraseCompound, PhraseSql, PhraseStack, PhrasePlain}

MaxPhrases == 2

RECURSIVE Join(_)
Join(ps) ==
    IF ps = <<>> THEN <<>>
    ELSE IF Len(ps) = 1 THEN ps[1]
    ELSE ps[1] \o <<" ">> \o Join(Tail(ps))

ScorerTexts == {Join(ps) : ps \in UNION {[1..n -> Phrases] : n \in 0..MaxPhrases}}

(***************************************************************************)
(* Request inputs.                                                         *)
(***************************************************************************)
JobIds == {"j1", "j2"}

\* The job ids in ascending order (ORDER BY job_id ASC).
JobOrder == <<"j1", "j2">>

\* The student a request names (the store the service may start on also
\* holds a result of "s2").
Students == {"s1"}

\* A form field or JSON member that is absent or empty.
Missing == ""

\* Looking for a Python and SQL developer
JdBody ==
    <<"L", "o", "o", "k", "i", "n", "g", " ", "f", "o", "r", " ", "a",
      " ", "P", "y", "t", "h", "o", "n", " ", "a", "n", "d", " ", "S",
      "Q", "L", " ", "d", "e", "v", "e", "l", "o", "p", "e", "r">>

\* I know Python
ResumePage1 ==
    <<"I", " ", "k", "n", "o", "w", " ", "P", "y", "t", "h", "o", "n">>

\*  and Java
ResumePage2 ==
    <<" ", "a", "n", "d", " ", "J", "a", "v", "a">>

\* Python, SQL
CvBody ==
    <<"P", "y", "t", "h", "o", "n", ",", " ", "S", "Q", "L">>

\* Java and SQL
UpdateBody ==
    <<"J", "a", "v", "a", " ", "a", "n", "d", " ", "S", "Q", "L">>

\* An uploaded file: its name, the extension os.path.splitext finds
\* (lowercased), the text of its pages (one page for a format without
\* pages), and whether the PDF / DOCX library can read it.
JdFile ==
    [filename |-> "jd.txt", suffix |-> ".txt",
     pages |-> <<JdBody>>, readable |-> TRUE]

ResumeFile ==
    [filename |-> "resume.pdf", suffix |-> ".pdf",
     pages |-> <<ResumePage1, ResumePage2>>, readable |-> TRUE]

CvFile ==
    [filename |-> "cv.docx", suffix |-> ".docx",
     pages |-> <<CvBody>>, readable |-> TRUE]

BrokenFile ==
    [filename |-> "broken.pdf", suffix |-> ".pdf",
     pages |-> <<>>, readable |-> FALSE]

NoFile ==
    [filename |-> Missing, suffix |-> "", pages |-> <<>>, readable |-> FALSE]

\* The files requests upload (CvFile is in the store the service may start on).
Files == {JdFile, ResumeFile, BrokenFile}

\* jd_text members of the PUT body.
UpdateTexts == {UpdateBody}

NoText == <<>>

\* dict.get of an absent key.
None == "<None>"

(***************************************************************************)
(* What the external model call produces.  kind: "nokey" (credential not   *)
(* set), "neterr" (the call raises), "badjson" (the reply does not parse), *)
(* "array" (the reply parses to a JSON value that is not an object),       *)
(* "object".  semantic_score is tagged: an integer, a string, or absent.   *)
(***************************************************************************)
IntScore(n) == [tag |-> "int", n |-> n]

StrScore == [tag |-> "str", n |-> 0]

AbsentScore == [tag |-> "absent", n |-> 0]

Reply(kind, score, verdict, skills, feedback) ==
    [kind |-> kind, semantic_score |-> score, verdict |-> verdict,
     missing_skills |-> skills, feedback |-> feedback]

NoReply(kind) == Reply(kind, AbsentScore, None, <<>>, None)

GeminiOutcomes ==
    { NoReply("nokey"), NoReply("neterr"), NoReply("badjson"), NoReply("array"),
      Reply("object", IntScore(85), "High", <<>>, "strong fit"),
      Reply("object", IntScore(150), "Excellent", <<>>, "strong fit"),
      Reply("object", StrScore, "High", <<>>, "strong fit") }

\* The record analyze_with_gemini returns when anything in it raises.
FallbackAnalysis ==
    Reply("object", IntScore(0), "Error", <<>>, "Could not analyze the resume")

analyze_with_gemini(outcome) ==
    IF outcome.kind \in {"nokey", "neterr", "badjson"}
    THEN FallbackAnalysis
    ELSE outcome

(***************************************************************************)
(* Text extraction.                                                        *)
(***************************************************************************)
RECURSIVE Concat(_)
Concat(pages) == IF pages = <<>> THEN <<>> ELSE Head(pages) \o Concat(Tail(pages))

extract_text_from_pdf(file) == Concat(file.pages)

extract_text_from_docx(file) == Concat(file.pages)

\* The PDF or DOCX library raises on a file it cannot read; the raw-decode
\* branch ignores undecodable bytes and does not raise.
ExtractRaises(file) == file.suffix \in {".pdf", ".docx"} /\ ~file.readable

extract_text(file) ==
    lower(IF file.suffix = ".pdf" THEN extract_text_from_pdf(file)
          ELSE IF file.suffix = ".docx" THEN extract_text_from_docx(file)
          ELSE Concat(file.pages))

\* The temporary file after extract_text: unlinked on return, left behind
\* when the extractor raises.
TmpAfterExtract(file) == IF ExtractRaises(file) THEN "left" ELSE "unlinked"

(***************************************************************************)
(* Storage statements.  jobs is the job_descriptions table (job_id ->      *)
(* jd_text), results the results table (a set of rows), nextId the         *)
(* AUTOINCREMENT sequence.  Foreign keys are declared but not enforced     *)
(* (the connection never turns them on).                                   *)
(***************************************************************************)
\* SELECT jd_text FROM job_descriptions WHERE job_id = ?
SelectJob(jb, job_id) == job_id \in DOMAIN jb

\* Variant: INSERT OR IGNORE, an existing job keeps its text.
InsertOrIgnoreJob(jb, job_id, text) ==
    [k \in DOMAIN jb \cup {job_id} |-> IF k \in DOMAIN jb THEN jb[k] ELSE text]

\* INSERT OR REPLACE INTO job_descriptions
UpsertJob(jb, job_id, text) ==
    [k \in DOMAIN jb \cup {job_id} |-> IF k = job_id THEN text ELSE jb[k]]

\* UPDATE job_descriptions SET jd_text = ? WHERE job_id = ?
UpdateJobRow(jb, job_id, text) ==
    [k \in DOMAIN jb |-> IF k = job_id THEN text ELSE jb[k]]

\* DELETE FROM job_descriptions WHERE job_id = ?
DeleteJobRow(jb, job_id) == [k \in DOMAIN jb \ {job_id} |-> jb[k]]

\* Variant: the WHERE clause is missing.
DeleteAllResults(res, job_id) == {}

\* DELETE FROM results WHERE job_id = ?
DeleteResults(res, job_id) == {r \in res : r.job_id # job_id}

\* json.dumps / json.loads of the missing-skills list.
json_dumps(skills) == [json |-> skills]

json_loads(str) == str.json

\* Variant: INSERT OR REPLACE keyed by student and job.
InsertOrReplaceResult(res, id, data) ==
    {r \in res : ~(r.student_id = data.student_id /\ r.job_id = data.job_id)}
    \cup {[id |-> id, student_id |-> data.student_id, job_id |-> data.job_id,
            score |-> data.score, verdict |-> data.verdict,
            missing_skills |-> [json |-> data.missing_skills],
            feedback |-> data.feedback]}

\* INSERT INTO results (...): the row gets the next id of the sequence.
InsertResult(res, id, data) ==
    res \cup {[id |-> id, student_id |-> data.student_id, job_id |-> data.job_id,
               score |-> data.score, verdict |-> data.verdict,
               missing_skills |-> json_dumps(data.missing_skills),
               feedback |-> data.feedback]}

\* SELECT job_id FROM job_descriptions ORDER BY job_id ASC
JobIdList(jb) == SelectSeq(JobOrder, LAMBDA j : j \in DOMAIN jb)

\* GET /job/<job_id>
JobDetailsResponse(jb, job_id) ==
    IF SelectJob(jb, job_id)
    THEN [status |-> 200, body |-> [job_id |-> job_id, jd_text |-> jb[job_id]]]
    ELSE [status |-> 404, body |-> [error |-> "Job ID not found"]]

\* GET /results/: the rows (all, or those of one job) with missing_skills
\* decoded.  The order of the list is not modelled.
ResultsResponse(res, job_id) ==
    [status |-> 200,
     body |-> {[r EXCEPT !.missing_skills = json_loads(r.missing_skills)] :
               r \in {x \in res : job_id = Missing \/ x.job_id = job_id}}]

(***************************************************************************)
(* State.                                                                  *)
(***************************************************************************)
VARIABLES
    jobs,      \* job_descriptions: job_id -> jd_text, for the stored ids
    results,   \* results: the set of rows
    nextId,    \* the id the next inserted result row gets (AUTOINCREMENT)
    pc,        \* per request slot: where its handler stands
    req,       \* per request slot: the handler's inputs and locals
    conn,      \* per request slot: "none", "open" or "closed"
    tmp,       \* per request slot: the temporary file, "none", "unlinked" or "left"
    resp,      \* per request slot: the response, once the handler has ended
    started,   \* requests accepted so far
    fn         \* inputs and output of a function applied on its own

storage == <<jobs, results, nextId>>

slots == <<pc, req, conn, tmp, resp, started>>

vars == <<jobs, results, nextId, pc, req, conn, tmp, resp, started, fn>>

\* Request slots: requests are handled concurrently, one per slot.
Procs == {"p1", "p2"}

SlotOrder == <<"p1", "p2">>

MaxRequests == 2

NoResultData ==
    [student_id |-> Missing, job_id |-> Missing, score |-> 0, verdict |-> None,
     missing_skills |-> <<>>, feedback |-> None]

\* rowid: the id of the row this request's insert committed, 0 if none.
IdleReq ==
    [op |-> "none", student_id |-> Missing, job_id |-> Missing, file |-> NoFile,
     new_text |-> NoText, jd_text |-> NoText, hard_match_score |-> 0,
     api |-> "none", result_data |-> NoResultData, rowid |-> 0]

NoResp == [status |-> 0, body |-> [none |-> TRUE]]

NoFn == [name |-> "none"]

EmptyJobs == [k \in {} |-> NoText]

\* The database file outlives the process (CREATE TABLE IF NOT EXISTS): the
\* service starts on an empty store or on one that earlier requests left.
\* TwoJobStore: after upload_jd of JdFile as j1 and of CvFile as j2 and one
\* scored resume for each job.
EmptyStore == [jobs |-> EmptyJobs, results |-> {}, nextId |-> 1]

StoredResult(student_id, job_id, jd_file, resume_file, reply) ==
    [student_id |-> student_id, job_id |-> job_id,
     score |-> final_score(calculate_hard_match_score(extract_text(jd_file),
                                                      extract_text(resume_file)),
                           reply.semantic_score.n),
     verdict |-> reply.verdict, missing_skills |-> reply.missing_skills,
     feedback |-> reply.feedback]

TwoJobStore ==
    [jobs |-> UpsertJob(UpsertJob(EmptyJobs, "j1", extract_text(JdFile)),
                        "j2", extract_text(CvFile)),
     results |->
        InsertResult(
            InsertResult({}, 1,
                StoredResult("s1", "j1", JdFile, ResumeFile,
                             Reply("object", IntScore(85), "High", <<>>, "strong fit"))),
            2,
            StoredResult("s2", "j2", CvFile, ResumeFile, FallbackAnalysis)),
     nextId |-> 3]

InitialStores == {EmptyStore, TwoJobStore}

InitServer ==
    /\ \E s \in InitialStores :
          /\ jobs = s.jobs
          /\ results = s.results
          /\ nextId = s.nextId
    /\ pc = [p \in Procs |-> "idle"]
    /\ req = [p \in Procs |-> IdleReq]
    /\ conn = [p \in Procs |-> "none"]
    /\ tmp = [p \in Procs |-> "none"]
    /\ resp = [p \in Procs |-> NoResp]
    /\ started = 0

Init == InitServer /\ fn = NoFn

(***************************************************************************)
(* Handlers.                                                               *)
(***************************************************************************)
\* A request is taken by the first free slot.
Accept(p) ==
    /\ pc[p] = "idle"
    /\ \A i \in 1..Len(SlotOrder) :
          SlotOrder[i] = p => \A k \in 1..(i - 1) : pc[SlotOrder[k]] # "idle"
    /\ started < MaxRequests
    /\ started' = started + 1

\* What is kept of a request once its handler has ended (its other locals
\* die with it): the operation, the job it named, whether the model call fell
\* back, the hard-match score and the id of the row it committed.
Ended(r) ==
    [IdleReq EXCEPT !.op = r.op, !.job_id = r.job_id, !.api = r.api,
                    !.hard_match_score = r.hard_match_score, !.rowid = r.rowid]

\* The handler ends: response sent, connection and temporary file as given.
Return(p, r, status, body, c, t) ==
    /\ pc' = [pc EXCEPT ![p] = "done"]
    /\ req' = [req EXCEPT ![p] = Ended(r)]
    /\ resp' = [resp EXCEPT ![p] = [status |-> status, body |-> body]]
    /\ conn' = [conn EXCEPT ![p] = c]
    /\ tmp' = [tmp EXCEPT ![p] = t]

\* The handler goes on to its next step.
Goto(p, r, label, c, t) ==
    /\ pc' = [pc EXCEPT ![p] = label]
    /\ req' = [req EXCEPT ![p] = r]
    /\ conn' = [conn EXCEPT ![p] = c]
    /\ tmp' = [tmp EXCEPT ![p] = t]
    /\ UNCHANGED resp

\* POST /upload_jd/.  fail: the commit raises sqlite3.Error.
upload_jd(p, job_id, file, fail) ==
    /\ Accept(p)
    /\ UNCHANGED <<results, nextId, fn>>
    /\ LET r == [IdleReq EXCEPT !.op = "upload_jd", !.job_id = job_id, !.file = file]
       IN  IF job_id = Missing \/ file.filename = Missing
           THEN /\ Return(p, r, 400, [error |-> "Missing job_id or file"], "none", "none")
                /\ UNCHANGED jobs
           ELSE IF ExtractRaises(file)
           THEN /\ Return(p, r, 500, [exception |-> "extract_text"], "none",
                          TmpAfterExtract(file))
                /\ UNCHANGED jobs
           ELSE IF fail
           THEN /\ Return(p, r, 500, [error |-> "Database error"], "closed",
                          TmpAfterExtract(file))
                /\ UNCHANGED jobs
           ELSE /\ Return(p, r, 200,
                          [message |-> "uploaded", filename |-> file.filename,
                           job_id |-> job_id],
                          "closed", TmpAfterExtract(file))
                /\ jobs' = UpsertJob(jobs, job_id, extract_text(file))

\* Variant: the lookup result is not checked, an unknown job scores against
\* an empty job text.
upload_resume_lookup_unchecked(p, student_id, job_id, file) ==
    /\ Accept(p)
    /\ UNCHANGED <<jobs, results, nextId, fn>>
    /\ LET r == [IdleReq EXCEPT !.op = "upload_resume", !.student_id = student_id,
                                !.job_id = job_id, !.file = file]
       IN  IF student_id = Missing \/ job_id = Missing \/ file.filename = Missing
           THEN Return(p, r, 400, [error |-> "Missing student_id, job_id, or file"],
                       "none", "none")
           ELSE Goto(p, [r EXCEPT !.jd_text = IF SelectJob(jobs, job_id)
                                              THEN jobs[job_id] ELSE NoText],
                     "resume_analyze", "open", "none")

\* POST /upload_resume/, up to the job lookup.
upload_resume_lookup(p, student_id, job_id, file) ==
    /\ Accept(p)
    /\ UNCHANGED <<jobs, results, nextId, fn>>
    /\ LET r == [IdleReq EXCEPT !.op = "upload_resume", !.student_id = student_id,
                                !.job_id = job_id, !.file = file]
       IN  IF student_id = Missing \/ job_id = Missing \/ file.filename = Missing
           THEN Return(p, r, 400, [error |-> "Missing student_id, job_id, or file"],
                       "none", "none")
           ELSE IF ~SelectJob(jobs, job_id)
           THEN Return(p, r, 404, [error |-> "Job ID not found"], "closed", "none")
           ELSE /\ Goto(p, [r EXCEPT !.jd_text = jobs[job_id]], "resume_analyze",
                        "open", "none")

\* How the model call went: "fallback" (it raised and the fallback record was
\* returned), "malformed" (the reply parsed, but not to an object with a
\* numeric semantic_score), "parsed".
ApiKind(outcome) ==
    IF analyze_with_gemini(outcome) # outcome THEN "fallback"
    ELSE IF outcome.kind # "object" \/ outcome.semantic_score.tag = "str" THEN "malformed"
    ELSE "parsed"

\* upload_resume: extraction, hard match, model call, blend.  No storage
\* access; the connection stays open and idle meanwhile.
upload_resume_analyze(p, outcome) ==
    /\ pc[p] = "resume_analyze"
    /\ UNCHANGED <<jobs, results, nextId, started, fn>>
    /\ LET file == req[p].file IN
       IF ExtractRaises(file)
       THEN Return(p, req[p], 500, [exception |-> "extract_text"], "open",
                   TmpAfterExtract(file))
       ELSE
       LET resume_text      == extract_text(file)
           hard_match_score == calculate_hard_match_score(req[p].jd_text, resume_text)
           gemini_analysis  == analyze_with_gemini(outcome)
           r1               == [req[p] EXCEPT !.hard_match_score = hard_match_score,
                                              !.api = ApiKind(outcome)]
       IN  IF gemini_analysis.kind # "object"
           THEN Return(p, r1, 500, [exception |-> "AttributeError"], "open",
                       TmpAfterExtract(file))
           ELSE IF gemini_analysis.semantic_score.tag = "str"
           THEN Return(p, r1, 500, [exception |-> "TypeError"], "open",
                       TmpAfterExtract(file))
           ELSE
           LET semantic_score == gemini_analysis.semantic_score.n
               result_data ==
                   [student_id |-> req[p].student_id, job_id |-> req[p].job_id,
                    score |-> final_score(hard_match_score, semantic_score),
                    verdict |-> gemini_analysis.verdict,
                    missing_skills |-> gemini_analysis.missing_skills,
                    feedback |-> gemini_analysis.feedback]
           IN  Goto(p, [r1 EXCEPT !.result_data = result_data], "resume_insert",
                    "open", TmpAfterExtract(file))

\* Variant: a failed insert is surfaced as a 500, as the other write
\* handlers do.
upload_resume_insert_surfaced(p, fail) ==
    /\ pc[p] = "resume_insert"
    /\ UNCHANGED <<jobs, started, fn>>
    /\ IF fail
       THEN /\ Return(p, req[p], 500, [error |-> "Database error"], "closed", tmp[p])
            /\ UNCHANGED <<results, nextId>>
       ELSE /\ Return(p, [req[p] EXCEPT !.rowid = nextId], 200, req[p].result_data,
                      "closed", tmp[p])
            /\ results' = InsertResult(results, nextId, req[p].result_data)
            /\ nextId' = nextId + 1

\* upload_resume: the insert transaction and the response.
upload_resume_insert(p, fail) ==
    /\ pc[p] = "resume_insert"
    /\ UNCHANGED <<jobs, started, fn>>
    /\ IF fail
       THEN /\ Return(p, req[p], 200, req[p].result_data, "closed", tmp[p])
            /\ UNCHANGED <<results, nextId>>
       ELSE /\ Return(p, [req[p] EXCEPT !.rowid = nextId], 200, req[p].result_data,
                      "closed", tmp[p])
            /\ results' = InsertResult(results, nextId, req[p].result_data)
            /\ nextId' = nextId + 1

\* GET /jobs/
get_jobs(p) ==
    /\ Accept(p)
    /\ UNCHANGED <<jobs, results, nextId, fn>>
    /\ Return(p, [IdleReq EXCEPT !.op = "get_jobs"], 200, JobIdList(jobs),
              "closed", "none")

\* GET /job/<job_id>
get_job_details(p, job_id) ==
    /\ Accept(p)
    /\ UNCHANGED <<jobs, results, nextId, fn>>
    /\ LET out == JobDetailsResponse(jobs, job_id)
       IN  Return(p, [IdleReq EXCEPT !.op = "get_job_details", !.job_id = job_id],
                  out.status, out.body, "closed", "none")

\* UPDATE ... cursor.rowcount
UpdateRowCount(jb, job_id) == IF job_id \in DOMAIN jb THEN 1 ELSE 0

\* PUT /job/<job_id>.  fail: the commit raises sqlite3.Error.
update_job(p, job_id, new_text, fail) ==
    /\ Accept(p)
    /\ UNCHANGED <<results, nextId, fn>>
    /\ LET r == [IdleReq EXCEPT !.op = "update_job", !.job_id = job_id,
                                !.new_text = new_text]
       IN  IF new_text = NoText
           THEN /\ Return(p, r, 400, [error |-> "Missing jd_text in request body"],
                          "none", "none")
                /\ UNCHANGED jobs
           ELSE IF UpdateRowCount(jobs, job_id) = 0
           THEN /\ Return(p, r, 404, [error |-> "Job ID not found"], "closed", "none")
                /\ UNCHANGED jobs
           ELSE IF fail
           THEN /\ Return(p, r, 500, [error |-> "Database error"], "closed", "none")
                /\ UNCHANGED jobs
           ELSE /\ Return(p, r, 200, [message |-> "updated", job_id |-> job_id],
                          "closed", "none")
                /\ jobs' = UpdateJobRow(jobs, job_id, lower(new_text))

\* DELETE /job/<job_id>, up to the existence check.
delete_job_lookup(p, job_id) ==
    /\ Accept(p)
    /\ UNCHANGED <<jobs, results, nextId, fn>>
    /\ LET r == [IdleReq EXCEPT !.op = "delete_job", !.job_id = job_id]
       IN  IF ~SelectJob(jobs, job_id)
           THEN Return(p, r, 404, [error |-> "Job ID not found"], "closed", "none")
           ELSE Goto(p, r, "delete_commit", "open", "none")

\* Variant: each statement commits on its own, so a failure after the first
\* delete leaves the results deleted and the job in place.
delete_job_commit_partial(p, fail) ==
    /\ pc[p] = "delete_commit"
    /\ UNCHANGED <<nextId, started, fn>>
    /\ IF fail
       THEN /\ Return(p, req[p], 500, [error |-> "Database error"], "closed", "none")
            /\ results' = DeleteResults(results, req[p].job_id)
            /\ UNCHANGED jobs
       ELSE /\ Return(p, req[p], 200, [message |-> "deleted", job_id |-> req[p].job_id],
                      "closed", "none")
            /\ results' = DeleteResults(results, req[p].job_id)
            /\ jobs' = DeleteJobRow(jobs, req[p].job_id)

\* delete_job: the two deletes and the commit, one transaction.
delete_job_commit(p, fail) ==
    /\ pc[p] = "delete_commit"
    /\ UNCHANGED <<nextId, started, fn>>
    /\ IF fail
       THEN /\ Return(p, req[p], 500, [error |-> "Database error"], "closed", "none")
            /\ UNCHANGED <<jobs, results>>
       ELSE /\ Return(p, req[p], 200, [message |-> "deleted", job_id |-> req[p].job_id],
                      "closed", "none")
            /\ results' = DeleteResults(results, req[p].job_id)
            /\ jobs' = DeleteJobRow(jobs, req[p].job_id)

\* GET /results/?job_id=
get_results(p, job_id) ==
    /\ Accept(p)
    /\ UNCHANGED <<jobs, results, nextId, fn>>
    /\ LET out == ResultsResponse(results, job_id)
       IN  Return(p, [IdleReq EXCEPT !.op = "get_results", !.job_id = job_id],
                  out.status, out.body, "closed", "none")

\* The response has gone out; the slot takes the next request.
Finish(p) ==
    /\ pc[p] = "done"
    /\ pc' = [pc EXCEPT ![p] = "idle"]
    /\ req' = [req EXCEPT ![p] = IdleReq]
    /\ resp' = [resp EXCEPT ![p] = NoResp]
    /\ conn' = [conn EXCEPT ![p] = "none"]
    /\ tmp' = [tmp EXCEPT ![p] = "none"]
    /\ UNCHANGED <<jobs, results, nextId, started, fn>>

Next ==
    \/ \E p \in Procs, j \in JobIds \cup {Missing}, f \in Files \cup {NoFile},
          fail \in BOOLEAN : upload_jd(p, j, f, fail)
    \/ \E p \in Procs, s \in Students \cup {Missing}, j \in JobIds \cup {Missing},
          f \in Files \cup {NoFile} : upload_resume_lookup(p, s, j, f)
    \/ \E p \in Procs, o \in GeminiOutcomes : upload_resume_analyze(p, o)
    \/ \E p \in Procs, fail \in BOOLEAN : upload_resume_insert(p, fail)
    \/ \E p \in Procs : get_jobs(p)
    \/ \E p \in Procs, j \in JobIds : get_job_details(p, j)
    \/ \E p \in Procs, j \in JobIds, t \in UpdateTexts \cup {NoText},
          fail \in BOOLEAN : update_job(p, j, t, fail)
    \/ \E p \in Procs, j \in JobIds : delete_job_lookup(p, j)
    \/ \E p \in Procs, fail \in BOOLEAN : delete_job_commit(p, fail)
    \/ \E p \in Procs, j \in JobIds \cup {Missing} : get_results(p, j)
    \/ \E p \in Procs : Finish(p)

Spec == Init /\ [][Next]_vars

(***************************************************************************)
(* The scorer and the blend applied on their own, over bounded inputs.     *)
(***************************************************************************)
ScoreMax == 100

InitScore ==
    /\ InitServer
    /\ fn \in [name : {"hard_match"}, jd_text : ScorerTexts,
               resume_text : ScorerTexts, out : {-1}]

ApplyHardMatch ==
    /\ fn.name = "hard_match"
    /\ fn.out = -1
    /\ fn' = [fn EXCEPT !.out = calculate_hard_match_score(fn.jd_text, fn.resume_text)]
    /\ UNCHANGED <<storage, slots>>

NextScore == ApplyHardMatch

SpecScore == InitScore /\ [][NextScore]_vars

\* The vocabulary terms c++, machine learning, data science and artificial
\* intelligence.
FourTerms == {keywords[3], keywords[9], keywords[10], keywords[11]}

\* Job texts and resume texts for the scorer as sequences of up to MaxPhrases
\* phrases, each one of the four terms or an ordinary phrase.
JobPhrases == FourTerms \cup {PhraseJob}

ResumePhrases == FourTerms \cup {PhraseResume}

PhraseSeqs(phrases) == UNION {[1..n -> phrases] : n \in 0..MaxPhrases}

InitTerms ==
    /\ InitServer
    /\ fn \in [name : {"terms"}, jd : PhraseSeqs(JobPhrases),
               resume : PhraseSeqs(ResumePhrases), out : {-1}]

ApplyTerms ==
    /\ fn.name = "terms"
    /\ fn.out = -1
    /\ fn' = [fn EXCEPT !.out = calculate_hard_match_score(Join(fn.jd), Join(fn.resume))]
    /\ UNCHANGED <<storage, slots>>

NextTerms == ApplyTerms

SpecTerms == InitTerms /\ [][NextTerms]_vars

InitBlend ==
    /\ InitServer
    /\ fn \in [name : {"blend"}, hard_match_score : 0..ScoreMax,
               semantic_score : 0..ScoreMax, out : {-1}]

ApplyBlend ==
    /\ fn.name = "blend"
    /\ fn.out = -1
    /\ fn' = [fn EXCEPT !.out = final_score(fn.hard_match_score, fn.semantic_score)]
    /\ UNCHANGED <<storage, slots>>

NextBlend == ApplyBlend

SpecBlend == InitBlend /\ [][NextBlend]_vars

(***************************************************************************)
(* Properties.                                                             *)
(***************************************************************************)
\* The step of slot p is the committing delete of delete_job.
DeleteCommitted(p) ==
    pc[p] = "delete_commit" /\ pc'[p] = "done" /\ resp'[p].status = 200

\* The step of slot p is the committing insert of upload_resume.
InsertCommitted(p) ==
    pc[p] = "resume_insert" /\ pc'[p] = "done" /\ req'[p].rowid # 0

\* C1: in every reachable state, under every interleaving of concurrent
\* requests, the job_id of every stored result is the job_id of a stored job
\* description: no orphaned result is retained.
NoOrphanedResult == \A r \in results : r.job_id \in DOMAIN jobs

\* C2: a delete_job that succeeds on job j leaves j out of the job-id list
\* and leaves no result of j, and changes no other job description and no
\* result of another job; delete_job on an absent job_id answers 404 and
\* changes nothing.
DeleteJobEffect ==
    [][\A p \in Procs :
        /\ DeleteCommitted(p) =>
              LET j == req[p].job_id IN
              /\ j \notin Range(JobIdList(jobs'))
              /\ \A r \in results' : r.job_id # j
              /\ DOMAIN jobs' = DOMAIN jobs \ {j}
              /\ \A k \in DOMAIN jobs' : jobs'[k] = jobs[k]
              /\ {r \in results' : r.job_id # j} = {r \in results : r.job_id # j}
        /\ \A j \in JobIds :
              (delete_job_lookup(p, j) /\ j \notin DOMAIN jobs) =>
                  /\ pc'[p] = "done"
                  /\ resp'[p].status = 404
                  /\ UNCHANGED <<jobs, results, nextId>>
      ]_vars

\* A delete_job has succeeded on a job that had a result, and a result of
\* another job is still stored.
DeleteJobWitness ==
    \E p \in Procs :
        /\ pc[p] = "done" /\ req[p].op = "delete_job" /\ resp[p].status = 200
        /\ req[p].job_id \notin DOMAIN jobs
        /\ Cardinality(results) < nextId - 1
        /\ \E r \in results : r.job_id # req[p].job_id /\ r.job_id \in DOMAIN jobs

\* C3: upload_resume with student_id, job_id and file present, for a job_id
\* with no stored job description, answers 404 at the lookup and leaves both
\* tables as they were: nothing is scored and no result row is written.
UnknownJobResume ==
    [][\A p \in Procs, s \in Students, j \in JobIds, f \in Files :
        (upload_resume_lookup(p, s, j, f) /\ j \notin DOMAIN jobs) =>
            /\ pc'[p] = "done"
            /\ resp'[p].status = 404
            /\ req'[p].rowid = 0
            /\ req'[p].api = "none"
            /\ UNCHANGED <<jobs, results, nextId>>
      ]_vars

\* An upload_resume for an unknown job has been answered 404.
UnknownJobResumeWitness ==
    \E p \in Procs :
        /\ pc[p] = "done" /\ req[p].op = "upload_resume" /\ resp[p].status = 404
        /\ req[p].job_id \in JobIds \ DOMAIN jobs
        /\ req[p].rowid = 0

IsLowercase(text) == \A i \in 1..Len(text) : text[i] \notin Range(UpperLetters)

\* C4: after a successful upload_jd(j, file), get_job_details(j) returns the
\* lowercased extracted text of the file, also when j was stored before
\* (the text is overwritten); after a successful update_job(j, t),
\* get_job_details(j) returns lowercase(t); update_job on an unknown j
\* answers 404 and does not create the job.
JobTextRoundTrip ==
    [][\A p \in Procs, j \in JobIds :
        /\ \A f \in Files :
              (upload_jd(p, j, f, FALSE) /\ resp'[p].status = 200) =>
                  /\ JobDetailsResponse(jobs', j) =
                        [status |-> 200,
                         body |-> [job_id |-> j, jd_text |-> lower(Concat(f.pages))]]
                  /\ IsLowercase(JobDetailsResponse(jobs', j).body.jd_text)
        /\ \A t \in UpdateTexts :
              (update_job(p, j, t, FALSE) /\ resp'[p].status = 200) =>
                  /\ j \in DOMAIN jobs
                  /\ JobDetailsResponse(jobs', j) =
                        [status |-> 200, body |-> [job_id |-> j, jd_text |-> lower(t)]]
                  /\ IsLowercase(JobDetailsResponse(jobs', j).body.jd_text)
        /\ \A t \in UpdateTexts, fail \in BOOLEAN :
              (update_job(p, j, t, fail) /\ j \notin DOMAIN jobs) =>
                  /\ resp'[p].status = 404
                  /\ jobs' = jobs
                  /\ JobDetailsResponse(jobs', j).status = 404
      ]_vars

\* One request has overwritten the text of a job that had a result with the
\* text of another file, and another has updated the other job's text.
JobTextRoundTripWitness ==
    \E p, q \in Procs :
        /\ pc[p] = "done" /\ req[p].op = "upload_jd" /\ resp[p].status = 200
        /\ req[p].job_id \in DOMAIN jobs
        /\ jobs[req[p].job_id] = extract_text(ResumeFile)
        /\ \E r \in results : r.job_id = req[p].job_id
        /\ pc[q] = "done" /\ req[q].op = "update_job" /\ resp[q].status = 200
        /\ req[q].job_id \in DOMAIN jobs
        /\ jobs[req[q].job_id] = lower(UpdateBody)

Python == keywords[1]

Sql == keywords[4]

RelevantSet(jd_text) == Range(keywords) \cap findall_words(jd_text)

MatchedSet(jd_text, resume_text) == RelevantSet(jd_text) \cap findall_words(resume_text)

\* C5 as stated: the score is 50 when no vocabulary term is in the job's word
\* set, otherwise the truncation of 100 * |relevant /\ resume words| /
\* |relevant|; it is an integer in 0..100, is 100 whenever the resume's word
\* set contains every relevant keyword, and is 50 for job words {python,
\* sql} against a resume with python and without sql.
HardMatchAsStated ==
    (fn.name = "hard_match" /\ fn.out # -1) =>
        LET relevant == RelevantSet(fn.jd_text)
            matched  == MatchedSet(fn.jd_text, fn.resume_text)
        IN  /\ relevant = {} => fn.out = 50
            /\ relevant # {} =>
                  fn.out = (100 * Cardinality(matched)) \div Cardinality(relevant)
            /\ fn.out \in 0..ScoreMax
            /\ relevant \subseteq findall_words(fn.resume_text) => fn.out = ScoreMax
            /\ (relevant = {Python, Sql} /\ matched = {Python}) => fn.out = 50

\* C5, amended: as stated, except that the score is 100 whenever the set of
\* relevant keywords is not empty and the resume's word set contains all of
\* it (with no relevant keyword the score is 50, whatever the resume).
HardMatchContract ==
    (fn.name = "hard_match" /\ fn.out # -1) =>
        LET relevant == RelevantSet(fn.jd_text)
            matched  == MatchedSet(fn.jd_text, fn.resume_text)
        IN  /\ relevant = {} => fn.out = 50
            /\ relevant # {} =>
                  fn.out = (100 * Cardinality(matched)) \div Cardinality(relevant)
            /\ fn.out \in 0..ScoreMax
            /\ (relevant # {} /\ relevant \subseteq findall_words(fn.resume_text)) =>
                  fn.out = ScoreMax
            /\ (relevant = {Python, Sql} /\ matched = {Python}) => fn.out = 50

\* The scenario: job words with python and sql as the relevant keywords,
\* a resume with python and java, scored 50.
HardMatchWitness ==
    /\ fn.name = "hard_match"
    /\ fn.jd_text = PhraseJob
    /\ fn.resume_text = PhraseResume
    /\ RelevantSet(fn.jd_text) = {Python, Sql}
    /\ MatchedSet(fn.jd_text, fn.resume_text) = {Python}
    /\ fn.out = 50

\* C6: for all integers hard_match_score and semantic_score in 0..100 the
\* final score is floor(0.4 * hard_match_score + 0.6 * semantic_score), that
\* is (4 * h + 6 * s) div 10, and lies in 0..100.
BlendIsFloor ==
    (fn.name = "blend" /\ fn.out # -1) =>
        /\ fn.out = (4 * fn.hard_match_score + 6 * fn.semantic_score) \div 10
        /\ fn.out \in 0..ScoreMax

\* C7: every failure of the external model call during an upload_resume on
\* an existing job (credential missing, network failure, malformed reply) is
\* absorbed: the request answers 200, never 5xx, with verdict "Error",
\* missing_skills [] and score floor(0.4 * hard_match_score), and that record
\* is persisted as a result.
ApiFailureAbsorbed ==
    \A p \in Procs :
        (/\ pc[p] = "done"
         /\ req[p].op = "upload_resume"
         /\ req[p].api \in {"fallback", "malformed"}) =>
            /\ resp[p].status = 200
            /\ resp[p].body.verdict = "Error"
            /\ resp[p].body.missing_skills = <<>>
            /\ resp[p].body.score = (4 * req[p].hard_match_score) \div 10
            /\ req[p].rowid # 0

\* C8: in every reachable state every stored result has an integer score in
\* 0..100 and a verdict among High, Medium, Low and Error, whatever the
\* external model returns.
StoredResultsWellTyped ==
    \A r \in results :
        /\ r.score \in 0..ScoreMax
        /\ r.verdict \in {"High", "Medium", "Low", "Error"}

\* C9: results are an append-only, immutable log.  A stored row stays as it
\* is through every step except a committing delete_job of its own job_id;
\* a committing upload_resume adds exactly one row, under an id no row ever
\* had; no other step adds a row.
ResultsAppendOnly ==
    [][/\ \A r \in results :
            \/ r \in results'
            \/ \E p \in Procs : DeleteCommitted(p) /\ req[p].job_id = r.job_id
       /\ \A r \in results : r.id < nextId
       /\ \A r \in results' \ results :
            /\ r.id >= nextId
            /\ r.id < nextId'
            /\ \E p \in Procs : InsertCommitted(p) /\ req'[p].rowid = r.id
       /\ \A p \in Procs :
            InsertCommitted(p) =>
                /\ results \subseteq results'
                /\ Cardinality(results' \ results) = 1
       /\ \A r1, r2 \in results' : r1.id = r2.id => r1 = r2
      ]_vars

\* The two results of the initial store are intact after the job of one of
\* them had its text overwritten by upload_jd, and a third result has been
\* appended under the next id.
ResultsAppendOnlyWitness ==
    /\ TwoJobStore.results \subseteq results
    /\ \E r \in results : r.id = TwoJobStore.nextId
    /\ "j1" \in DOMAIN jobs
    /\ jobs["j1"] # TwoJobStore.jobs["j1"]

\* C10: every handler that opens a storage connection closes it on every
\* exit path: no request ends with its connection still open.
ConnectionsClosed == \A p \in Procs : pc[p] = "done" => conn[p] # "open"

\* C11: the temporary file extract_text creates for the uploaded bytes no
\* longer exists when extract_text exits, on every exit path: after a
\* successful extraction of a .pdf, a .docx or a raw-decoded file, and also
\* when the extractor raises.
TempFileRemoved == \A p \in Procs : tmp[p] # "left"

\* C12: when the write of upload_jd, update_job or delete_job meets a storage
\* error, the error is caught, the transaction is rolled back, the response
\* is 500 and the store is as before the request (the connection is closed
\* too); delete_job is all-or-nothing: no step removes results of a job and
\* keeps its job description, or removes a job description and keeps
\* results that were stored for it.
WriteFailureRollsBack ==
    [][/\ \A p \in Procs :
            /\ \A j \in JobIds, f \in Files :
                  (upload_jd(p, j, f, TRUE) /\ ~ExtractRaises(f)) =>
                      /\ resp'[p] = [status |-> 500, body |-> [error |-> "Database error"]]
                      /\ conn'[p] = "closed"
                      /\ UNCHANGED <<jobs, results, nextId>>
            /\ \A j \in JobIds, t \in UpdateTexts :
                  (update_job(p, j, t, TRUE) /\ j \in DOMAIN jobs) =>
                      /\ resp'[p] = [status |-> 500, body |-> [error |-> "Database error"]]
                      /\ conn'[p] = "closed"
                      /\ UNCHANGED <<jobs, results, nextId>>
            /\ (pc[p] = "delete_commit" /\ pc'[p] = "done" /\ resp'[p].status # 200) =>
                      /\ resp'[p] = [status |-> 500, body |-> [error |-> "Database error"]]
                      /\ conn'[p] = "closed"
                      /\ UNCHANGED <<jobs, results, nextId>>
       /\ \A r \in results \ results' : r.job_id \notin DOMAIN jobs'
       /\ \A j \in DOMAIN jobs \ DOMAIN jobs' : \A r \in results : r.job_id = j => r \notin results'
      ]_vars

\* A delete_job on a job that has a result met a storage error: it answered
\* 500, and the job and its result are both still stored.
WriteFailureWitness ==
    \E p \in Procs :
        /\ pc[p] = "done" /\ req[p].op = "delete_job" /\ resp[p].status = 500
        /\ conn[p] = "closed"
        /\ req[p].job_id \in DOMAIN jobs
        /\ \E r \in results : r.job_id = req[p].job_id
        /\ jobs = TwoJobStore.jobs /\ results = TwoJobStore.results

\* C13: when the result insert of upload_resume fails with a storage error,
\* the write is rolled back and no result row is added, yet the request
\* answers 200 with the full result record, not 500: the list of results
\* does not show the submission the client was told succeeded.
InsertFailureSilent ==
    [][\A p \in Procs :
        (pc[p] = "resume_insert" /\ pc'[p] = "done" /\ results' = results) =>
            /\ resp'[p] = [status |-> 200, body |-> req[p].result_data]
            /\ req'[p].rowid = 0
            /\ conn'[p] = "closed"
            /\ nextId' = nextId
            /\ ResultsResponse(results', Missing) = ResultsResponse(results, Missing)
      ]_vars

\* An upload_resume whose insert failed has been answered 200 with its result
\* record, and the store holds no row beyond those it started with.
InsertFailureWitness ==
    \E p \in Procs :
        /\ pc[p] = "done" /\ req[p].op = "upload_resume" /\ resp[p].status = 200
        /\ req[p].api # "none"
        /\ req[p].rowid = 0
        /\ resp[p].body.job_id = req[p].job_id
        /\ results = TwoJobStore.results
        /\ nextId = TwoJobStore.nextId

\* The text contains the term as a run of consecutive characters.
Mentions(text, k) ==
    \E i \in 1..(Len(text) - Len(k) + 1) : SubSeq(text, i, i + Len(k) - 1) = k

\* The phrases of a text without the four terms.
WithoutTerms(ps) == SelectSeq(ps, LAMBDA ph : ph \notin FourTerms)

\* C14: the four vocabulary terms that are not a single word token (c++,
\* machine learning, data science, artificial intelligence) are never
\* relevant and never matched; a job text that mentions no vocabulary term
\* other than these four scores 50 for every resume; and the score of a job
\* text and a resume is the score of the same texts with these terms left
\* out of the job text, of the resume, or of both.
TermsNeverCount ==
    (fn.name = "terms" /\ fn.out # -1) =>
        LET jd_text     == Join(fn.jd)
            resume_text == Join(fn.resume)
            jd_bare     == Join(WithoutTerms(fn.jd))
            resume_bare == Join(WithoutTerms(fn.resume))
        IN  /\ \A k \in Range(keywords) : k \in FourTerms <=> findall_words(k) # {k}
            /\ RelevantSet(jd_text) \cap FourTerms = {}
            /\ MatchedSet(jd_text, resume_text) \cap FourTerms = {}
            /\ (\A k \in Range(keywords) : Mentions(jd_text, k) => k \in FourTerms) =>
                  fn.out = 50
            /\ fn.out = calculate_hard_match_score(jd_bare, resume_text)
            /\ fn.out = calculate_hard_match_score(jd_text, resume_bare)
            /\ fn.out = calculate_hard_match_score(jd_bare, resume_bare)

\* A job text made of "c++" and "machine learning" only, scored 50 against
\* a resume that names machine learning, python and java.
TermsNeverCountWitness ==
    /\ fn.name = "terms"
    /\ fn.jd = <<keywords[3], keywords[9]>>
    /\ fn.resume = <<keywords[9], PhraseResume>>
    /\ Mentions(Join(fn.jd), keywords[3]) /\ Mentions(Join(fn.jd), keywords[9])
    /\ Mentions(Join(fn.resume), keywords[9])
    /\ fn.out = 50

====
